---- MODULE Spec2Model ----
(***************************************************************************)
(* A model of the web crawler of src/lib.rs: the generator returned by     *)
(* crawl_web_page, driven through GenIter::next of src/generators.rs, with *)
(* fetch_web_page and get_web_page_info evaluated against a fixed web.     *)
(*                                                                         *)
(* Encodings.  Option<T> is a sequence of length at most one (<<>> is      *)
(* None, <<x>> is Some(x)).  Result<T, E> is a record with the field ok    *)
(* and either val or err.  Text is a sequence of one-character strings.    *)
(* A Url is one of the strings of AllUrls.                                 *)
(***************************************************************************)
EXTENDS Integers, Sequences, FiniteSets, TLC

VARIABLES
    web,            \* the environment: Url -> the response a GET of it receives
    seed,           \* the argument of crawl_web_page (text)
    gen,            \* where the generator stands: Unresumed, Suspended, Returned
    urls_visited,   \* lib.rs:85
    urls_to_visit,  \* lib.rs:86
    ret,            \* what the latest GenIter::next call gave its caller
    popped,         \* history: every url taken by pop_front, in order
    enqueued,       \* history: every url given to push_back, in order
    yielded         \* history: every item yielded, in order

vars == <<web, seed, gen, urls_visited, urls_to_visit, ret, popped, enqueued, yielded>>

----------------------------------------------------------------------------
(* Bounds of the model. *)

\* The longest list of anchors of a page of the enumerated webs.
MaxLinks == 2

\* No next() request is served once this many urls have been popped.
MaxPops == 16

----------------------------------------------------------------------------
(* Values. *)

Urls == {"A", "B", "C"}

AllUrls == {"A", "B", "C", "D"}

None == <<>>

Some(x) == <<x>>

Ok(x) == [ok |-> TRUE, val |-> x]

Err(e) == [ok |-> FALSE, err |-> e]

\* let x = value; body: the value is computed once and the body sees it.
LetIn(value, Body(_)) == CHOOSE r \in {Body(x) : x \in {value}} : TRUE

Space == " "

\* str::trim, and the stripping of surrounding spaces that Url::parse does.
RECURSIVE TrimStart(_)
TrimStart(s) ==
    IF s # <<>> /\ Head(s) = Space THEN TrimStart(Tail(s)) ELSE s

RECURSIVE TrimEnd(_)
TrimEnd(s) ==
    IF s # <<>> /\ s[Len(s)] = Space THEN TrimEnd(SubSeq(s, 1, Len(s) - 1)) ELSE s

Trim(s) == TrimEnd(TrimStart(s))

\* Url::parse on a text: the url it denotes, if any.  A text denotes a url
\* when, stripped of surrounding spaces, it is the one token of a url.
ParseUrl(s) ==
    LET t == Trim(s)
    IN  IF Len(t) = 1 /\ t[1] \in AllUrls THEN Ok(t[1]) ELSE Err("ParseError")

\* Result::ok
ResultOk(r) == IF r.ok THEN Some(r.val) ELSE None

into_url(s) == ParseUrl(s)

\* StatusCode::is_success
is_success(status) == status >= 200 /\ status <= 299

\* HeaderValue::to_str: fails on a value with bytes that are not visible ASCII.
NonAsciiValues == {"text/html\\xff"}

to_str(h) == IF h \in NonAsciiValues THEN Err("ToStrError") ELSE Ok(h)

----------------------------------------------------------------------------
(* fetch_web_page, lib.rs:44-63.  A response is a record                   *)
(*   sent          FALSE when the request fails in transport               *)
(*   status        the status code                                         *)
(*   content_type  Option of the Content-Type header value                 *)
(*   text          Option of the document the body decodes to              *)

\* Mutant of fetch_web_page: the Content-Type header is examined before the
\* status.
fetch_web_pageHeadersFirst(url) ==
    LetIn(web[url], LAMBDA resp :
        IF ~resp.sent THEN Err(<<"HttpError">>)
        ELSE IF resp.content_type = None THEN Err(<<"MissingContentType">>)
        ELSE IF to_str(resp.content_type[1]) = Ok("text/html")
             THEN Err(<<"BadContentType", resp.content_type[1]>>)
        ELSE IF ~is_success(resp.status) THEN Err(<<"BadHttpStatus", resp.status>>)
        ELSE IF resp.text = None THEN Err(<<"TextDecodeError">>)
        ELSE Ok(resp.text[1]))

fetch_web_page(url) ==
    LetIn(web[url], LAMBDA resp :
        IF ~resp.sent THEN Err(<<"HttpError">>)
        ELSE IF ~is_success(resp.status) THEN Err(<<"BadHttpStatus", resp.status>>)
        ELSE IF resp.content_type = None THEN Err(<<"MissingContentType">>)
        ELSE IF to_str(resp.content_type[1]) = Ok("text/html")
             THEN Err(<<"BadContentType", resp.content_type[1]>>)
        ELSE IF resp.text = None THEN Err(<<"TextDecodeError">>)
        ELSE Ok(resp.text[1]))

(* get_web_page_info, lib.rs:65-79.  A document is a record                *)
(*   titles   the texts of its title elements, in document order           *)
(*   anchors  its anchor elements in document order, each the Option of    *)
(*            the text of its href attribute                               *)

\* Mutant of filter_map_links: collection stops at the first anchor whose
\* href is missing or does not parse.
RECURSIVE filter_map_linksStop(_)
filter_map_linksStop(anchors) ==
    IF anchors = <<>> THEN <<>>
    ELSE LET n == Head(anchors)
             parsed == IF n = None THEN None ELSE ResultOk(ParseUrl(n[1]))
         IN  IF parsed = None THEN <<>>
             ELSE parsed \o filter_map_linksStop(Tail(anchors))

\* lib.rs:70-73: the anchors' hrefs that are present and parse, in order.
RECURSIVE filter_map_links(_)
filter_map_links(anchors) ==
    IF anchors = <<>> THEN <<>>
    ELSE LET n == Head(anchors)
             parsed == IF n = None THEN None ELSE ResultOk(ParseUrl(n[1]))
         IN  parsed \o filter_map_links(Tail(anchors))

get_web_page_info(doc) ==
    IF doc.titles = <<>> THEN Err(<<"NoTitle">>)
    ELSE Ok([title |-> Trim(Head(doc.titles)),
             links |-> filter_map_links(doc.anchors)])

----------------------------------------------------------------------------
(* The generator body of crawl_web_page, lib.rs:84-105. *)

\* Mutant of SeedFrontier: a seed that does not convert falls back to a url.
SeedFrontierDefault(input) ==
    LET u == into_url(input) IN IF u.ok THEN <<u.val>> ELSE <<"A">>

\* Mutant of SeedFrontier: the seed is taken only when it is a url as written.
SeedFrontierStrict(input) ==
    IF Len(input) = 1 /\ input[1] \in AllUrls THEN <<input[1]>> ELSE <<>>

\* lib.rs:87-89: the frontier after the seed's conversion.
SeedFrontier(input) ==
    LET u == into_url(input) IN IF u.ok THEN <<u.val>> ELSE <<>>

\* Mutant of MarkVisited: the popped url is not recorded.
MarkVisitedNever(visited, url) == visited

\* lib.rs:92
MarkVisited(visited, url) == visited \cup {url}

\* Mutant of UnvisitedLinks: every link is pushed, visited or not.
UnvisitedLinksAll(links, visited) == links

\* Mutant of UnvisitedLinks: a link that occurs twice on the page is kept once.
RECURSIVE UnvisitedLinksOnce(_, _)
UnvisitedLinksOnce(links, visited) ==
    IF links = <<>> THEN <<>>
    ELSE IF Head(links) \in visited THEN UnvisitedLinksOnce(Tail(links), visited)
    ELSE <<Head(links)>> \o UnvisitedLinksOnce(Tail(links), visited \cup {Head(links)})

\* lib.rs:95-99: the links pushed for a page, in the extractor's order.
UnvisitedLinks(links, visited) ==
    SelectSeq(links, LAMBDA l : l \notin visited)

\* Mutant of PageOf: a url whose fetch or extraction fails gives an empty page.
PageOfDefault(url) ==
    LetIn(fetch_web_page(url), LAMBDA fetched :
        IF fetched.ok /\ get_web_page_info(fetched.val).ok
        THEN ResultOk(get_web_page_info(fetched.val))
        ELSE Some([title |-> <<>>, links |-> <<>>]))

\* lib.rs:93-94: the page of a url, when both fetch and extraction succeed.
PageOf(url) ==
    LetIn(fetch_web_page(url), LAMBDA fetched :
        IF fetched.ok
        THEN LetIn(get_web_page_info(fetched.val), LAMBDA info : ResultOk(info))
        ELSE None)

\* Mutant of AfterFailure: a url that produces no page ends the crawl.
AfterFailureDrop(st) == [st EXCEPT !.urls_to_visit = <<>>]

\* lib.rs:102-104: the locals the loop goes on with after a url that produced
\* no page.
AfterFailure(st) == st

(* lib.rs:91-104: the while loop from its head, run until it yields (out   *)
(* is Some of the item) or ends (out is None).  locals carries the         *)
(* generator's locals and the histories.                                   *)
RECURSIVE WhileLoop(_)
WhileLoop(locals) ==
    LetIn(locals, LAMBDA st :
    IF st.urls_to_visit = <<>> THEN [st EXCEPT !.out = None]
    ELSE
    LetIn(Head(st.urls_to_visit), LAMBDA url :
    LetIn(MarkVisited(st.urls_visited, url), LAMBDA visited :
    LetIn([st EXCEPT !.urls_to_visit = Tail(st.urls_to_visit),
                     !.urls_visited = visited,
                     !.popped = Append(st.popped, url)], LAMBDA taken :
    LetIn(PageOf(url), LAMBDA page :
        IF page # None
        THEN LetIn(UnvisitedLinks(page[1].links, visited), LAMBDA pushed :
                 [taken EXCEPT !.urls_to_visit = taken.urls_to_visit \o pushed,
                               !.enqueued = taken.enqueued \o pushed,
                               !.out = Some(<<url, page[1]>>)])
        ELSE WhileLoop(AfterFailure(taken)))))))

\* Mutant of Locals: the frontier is not kept from one request to the next.
LocalsReset == [urls_visited |-> urls_visited, urls_to_visit |-> <<>>,
                popped |-> popped, enqueued |-> enqueued, out |-> None]

\* The generator's locals and the histories, as the record WhileLoop takes.
Locals == [urls_visited |-> urls_visited, urls_to_visit |-> urls_to_visit,
           popped |-> popped, enqueued |-> enqueued, out |-> None]

\* lib.rs:85-89: the locals once the statements before the loop have run.
Prologue ==
    LET q == SeedFrontier(seed)
    IN  [urls_visited |-> {}, urls_to_visit |-> q,
         popped |-> <<>>, enqueued |-> q, out |-> None]

\* generators.rs:10-13: the caller's view of a resume that ran the loop.
Deliver(st) ==
    /\ urls_visited' = st.urls_visited
    /\ urls_to_visit' = st.urls_to_visit
    /\ popped' = st.popped
    /\ enqueued' = st.enqueued
    /\ IF st.out # None
       THEN /\ gen' = "Suspended"
            /\ ret' = <<"Some", st.out[1]>>
            /\ yielded' = Append(yielded, st.out[1])
       ELSE /\ gen' = "Returned"
            /\ ret' = <<"None">>
            /\ yielded' = yielded

\* next() on a generator that never ran: the body runs from its first line.
NextFirst ==
    /\ gen = "Unresumed"
    /\ \E st \in {WhileLoop(Prologue)} : Deliver(st)
    /\ UNCHANGED <<web, seed>>

\* next() on a generator suspended at the yield of lib.rs:101.
NextResumed ==
    /\ gen = "Suspended"
    /\ Len(popped) < MaxPops
    /\ \E st \in {WhileLoop(Locals)} : Deliver(st)
    /\ UNCHANGED <<web, seed>>

\* next() on a generator that has returned: resume panics.
NextAfterReturn ==
    /\ gen = "Returned"
    /\ ret # <<"Panic">>
    /\ ret' = <<"Panic">>
    /\ UNCHANGED <<web, seed, gen, urls_visited, urls_to_visit, popped, enqueued, yielded>>

Next == NextFirst \/ NextResumed \/ NextAfterReturn

----------------------------------------------------------------------------
(* The webs and seeds the specifications start from. *)

Text(u) == <<u>>

Padded(u) == <<Space, u, Space>>

\* All sequences over S of length at most n.
RECURSIVE SeqsUpTo(_, _)
SeqsUpTo(S, n) ==
    IF n = 0 THEN {<<>>}
    ELSE LET shorter == SeqsUpTo(S, n - 1)
         IN  shorter \cup {Append(s, x) : s \in shorter, x \in S}

Doc(titles, anchors) == [titles |-> titles, anchors |-> anchors]

HtmlResponse(doc) ==
    [sent |-> TRUE, status |-> 200,
     content_type |-> Some("text/html; charset=utf-8"), text |-> Some(doc)]

TitleText == <<Space, "T", Space>>

\* Titled pages whose anchors all carry an href naming a url of U.
LinkedPages(U) ==
    {HtmlResponse(Doc(<<TitleText>>, anchors)) :
        anchors \in SeqsUpTo({Some(Text(u)) : u \in U}, MaxLinks)}

\* A titled page with an unparseable href, an anchor without href and a
\* padded href.
MixedPage ==
    HtmlResponse(Doc(<<TitleText>>,
                     <<Some(<<"n", "o">>), None, Some(Padded("B"))>>))

BodyOfFailure == Doc(<<TitleText>>, <<Some(Text("B")), Some(Text("C"))>>)

\* Responses for which fetch_web_page or get_web_page_info fails.
FailingPages ==
    { [HtmlResponse(BodyOfFailure) EXCEPT !.sent = FALSE],
      [HtmlResponse(BodyOfFailure) EXCEPT !.status = 404],
      [HtmlResponse(BodyOfFailure) EXCEPT !.content_type = None],
      [HtmlResponse(BodyOfFailure) EXCEPT !.content_type = Some("text/html")],
      [HtmlResponse(BodyOfFailure) EXCEPT !.text = None],
      HtmlResponse(Doc(<<>>, BodyOfFailure.anchors)) }

Seeds == {Text("A"), Padded("B"), <<>>}

Init ==
    /\ web \in [Urls -> LinkedPages(Urls) \cup {MixedPage} \cup FailingPages]
    /\ seed \in Seeds
    /\ gen = "Unresumed"
    /\ urls_visited = {}
    /\ urls_to_visit = <<>>
    /\ ret = <<"NoCall">>
    /\ popped = <<>>
    /\ enqueued = <<>>
    /\ yielded = <<>>

Spec == Init /\ [][Next]_vars

\* Webs over four urls whose links all lead from a url to a later one of the
\* order A, B, C, D: page graphs without cycles.
Later(u) ==
    CASE u = "A" -> {"B", "C", "D"}
      [] u = "B" -> {"C", "D"}
      [] u = "C" -> {"D"}
      [] OTHER -> {}

DagPages(u) == LinkedPages(Later(u)) \cup FailingPages

InitDag ==
    /\ \E a \in DagPages("A"), b \in DagPages("B"), c \in DagPages("C"),
          d \in DagPages("D") :
            web = [u \in AllUrls |->
                     CASE u = "A" -> a [] u = "B" -> b [] u = "C" -> c [] OTHER -> d]
    /\ seed \in {Text("A"), <<>>}
    /\ gen = "Unresumed"
    /\ urls_visited = {}
    /\ urls_to_visit = <<>>
    /\ ret = <<"NoCall">>
    /\ popped = <<>>
    /\ enqueued = <<>>
    /\ yielded = <<>>

SpecDag == InitDag /\ [][Next]_vars

\* Webs for the crawls that are followed to their end: pages whose link lists
\* name no url twice, a page that answers 404 and a page without title.
NoRepeat(s) == \A i, j \in 1..Len(s) : i # j => s[i] # s[j]

FairPages ==
    {p \in LinkedPages(Urls) : NoRepeat(p.text[1].anchors)}
    \cup {[HtmlResponse(BodyOfFailure) EXCEPT !.status = 404],
          HtmlResponse(Doc(<<>>, BodyOfFailure.anchors))}

InitFair ==
    /\ web \in [Urls -> FairPages]
    /\ seed = Text("A")
    /\ gen = "Unresumed"
    /\ urls_visited = {}
    /\ urls_to_visit = <<>>
    /\ ret = <<"NoCall">>
    /\ popped = <<>>
    /\ enqueued = <<>>
    /\ yielded = <<>>

\* The consumer keeps requesting elements for as long as a request can be made.
FairSpec == InitFair /\ [][Next]_vars /\ WF_vars(Next)

----------------------------------------------------------------------------
(* The page graph of a web: the links of the pages that fetch and extract. *)

SeedUrl == ResultOk(into_url(seed))

Succeeds(u) == PageOf(u) # None

LinkSet(u) ==
    IF Succeeds(u) THEN {PageOf(u)[1].links[i] : i \in 1..Len(PageOf(u)[1].links)}
    ELSE {}

\* The urls reachable from those of S in any number of links.
RECURSIVE Closure(_)
Closure(S) ==
    LET more == S \cup UNION {LinkSet(u) : u \in S}
    IN  IF more = S THEN S ELSE Closure(more)

Reachable == IF SeedUrl = None THEN {} ELSE Closure({SeedUrl[1]})

Acyclic == \A u \in Reachable : u \notin Closure(LinkSet(u))

Range(s) == {s[i] : i \in 1..Len(s)}

Count(s, x) == Cardinality({i \in 1..Len(s) : s[i] = x})

YieldedUrls == [i \in 1..Len(yielded) |-> yielded[i][1]]

Exhausted == ret = <<"None">>

\* The pop cap of the model is never what stops a crawl.
CapNotReached == Len(popped) < MaxPops

----------------------------------------------------------------------------
(* Claims. *)

\* C1: no url is fetched more than once: the sequence of urls popped from
\* the frontier contains no repeats.
NoDuplicateProcessing ==
    \A i, j \in 1..Len(popped) : i # j => popped[i] # popped[j]

\* C2: once a next() request has reported None, every later next() request
\* reports None as well.
IdempotentExhaustion ==
    [][ret = <<"None">> => ret' = <<"None">>]_vars

\* C3: on an acyclic page graph the sequence reports exhaustion after yielding
\* exactly as many elements as there are reachable pages that fetch and
\* extract successfully.
AcyclicExactCount ==
    (Acyclic /\ Exhausted) =>
        Len(yielded) = Cardinality({u \in Reachable : Succeeds(u)})

\* The consumer kept requesting until the sequence reported exhaustion.
W_Finiteness ==
    /\ Exhausted
    /\ ~Acyclic
    /\ \E u \in Reachable : ~Succeeds(u)
    /\ Len(yielded) >= 2

\* C4: on every web (finitely many urls, cyclic or not, any pages failing)
\* repeated next() requests eventually report exhaustion, and the frontier
\* eventually becomes empty and stays empty.
Finiteness ==
    <>Exhausted /\ <>[](urls_to_visit = <<>>)

\* The page graph is the cycle A -> B -> C -> A and the seed is A; a page of
\* the cycle either fails or links to the next url of the cycle only.
NextInCycle(u) == CASE u = "A" -> "B" [] u = "B" -> "C" [] OTHER -> "A"

CycleWeb ==
    /\ SeedUrl = Some("A")
    /\ \A u \in Urls : Succeeds(u) => PageOf(u)[1].links = <<NextInCycle(u)>>

W_CycleSafety ==
    /\ CycleWeb
    /\ \A u \in Urls : Succeeds(u)
    /\ Exhausted
    /\ YieldedUrls = <<"A", "B", "C">>

\* C5: on the cycle A -> B -> C -> A with seed A the crawl terminates and
\* each of A, B and C is yielded at most once.
CycleSafety ==
    /\ CycleWeb => <>Exhausted
    /\ [](CycleWeb => \A u \in Urls : Count(YieldedUrls, u) <= 1)

\* The page info of a titled page with the given links.
Info(links) == [title |-> <<"T">>, links |-> links]

\* Scenario 1: seed A links to B and C, B has no links, C links back to A,
\* and all three pages succeed.
Scenario1 ==
    /\ SeedUrl = Some("A")
    /\ PageOf("A") = Some(Info(<<"B", "C">>))
    /\ PageOf("B") = Some(Info(<<>>))
    /\ PageOf("C") = Some(Info(<<"A">>))

Expected1 ==
    << <<"A", Info(<<"B", "C">>)>>, <<"B", Info(<<>>)>>, <<"C", Info(<<"A">>)>> >>

W_Scenario1Order ==
    /\ Scenario1
    /\ Exhausted
    /\ yielded = Expected1

\* C6: in scenario 1 the sequence produces (A, infoA), (B, infoB), (C, infoC)
\* in that order and then exhaustion: 3 elements, no repeats.
Scenario1Order ==
    /\ Scenario1 => <>(Exhausted /\ yielded = Expected1)
    /\ [](Scenario1 =>
            /\ Len(yielded) <= 3
            /\ yielded = SubSeq(Expected1, 1, Len(yielded)))

\* A url that failed was popped with urls queued behind it, and the crawl
\* went on to pop them and to yield one of them.
W_SkipOnFailure ==
    /\ Exhausted
    /\ \E i, j \in 1..Len(popped) :
          /\ i < j
          /\ ~Succeeds(popped[i])
          /\ Succeeds(popped[j])
          /\ popped[j] \in Range(YieldedUrls)
    /\ \E i \in 1..Len(popped) : fetch_web_page(popped[i]).ok /\ ~Succeeds(popped[i])

\* C7: a popped url whose fetch or extraction fails contributes no element
\* (the urls yielded are the popped urls that succeed, pop for pop), and no
\* url queued behind it is lost: everything pushed is popped or still queued,
\* and the sequence ends only with everything pushed popped.
SkipOnFailure ==
    /\ YieldedUrls = SelectSeq(popped, Succeeds)
    /\ popped \o urls_to_visit = enqueued
    /\ gen = "Returned" => popped = enqueued

W_UnparseableSeed ==
    /\ SeedUrl = None
    /\ seed = <<>>
    /\ Exhausted

\* C8: when the seed does not convert to a url the frontier is and stays
\* empty, the first next() request reports exhaustion, no url is marked
\* visited and no fetch is attempted.
UnparseableSeed ==
    /\ [](SeedUrl = None =>
            /\ urls_to_visit = <<>>
            /\ urls_visited = {}
            /\ popped = <<>>
            /\ yielded = <<>>)
    /\ [][(SeedUrl = None /\ gen = "Unresumed") => ret' = <<"None">>]_vars

\* The urls within k links of the seed.
RECURSIVE Within(_)
Within(k) ==
    IF SeedUrl = None THEN {}
    ELSE IF k = 0 THEN {SeedUrl[1]}
    ELSE Within(k - 1) \cup UNION {LinkSet(u) : u \in Within(k - 1)}

\* The link-distance of a reachable url from the seed.
Dist(u) ==
    CHOOSE k \in 0..Cardinality(AllUrls) :
        /\ u \in Within(k)
        /\ \A j \in 0..(k - 1) : u \notin Within(j)

\* C9: urls are popped in non-decreasing link-distance from the seed.
BreadthFirstOrder ==
    \A i, j \in 1..Len(popped) : i < j => Dist(popped[i]) <= Dist(popped[j])

W_SeedFirst ==
    /\ seed = Padded("B")
    /\ Succeeds("B")
    /\ Len(yielded) >= 2
    /\ yielded[1][1] = "B"

\* C10: if the seed converts to a url and its page fetches and extracts, the
\* first element the sequence produces is (seed url, page info of the seed).
SeedFirst ==
    (SeedUrl # None /\ Succeeds(SeedUrl[1]) /\ gen # "Unresumed") =>
        /\ yielded # <<>>
        /\ yielded[1] = <<SeedUrl[1], PageOf(SeedUrl[1])[1]>>

----------------------------------------------------------------------------
(* Extraction on documents with arbitrary anchors: the seed page A carries *)
(* any anchors (no href, an href that does not parse, plain and padded     *)
(* hrefs); B and C are pages without anchors or pages that answer 404.     *)

Hrefs ==
    {None, Some(<<"n", "o">>), Some(Padded("B"))} \cup {Some(Text(u)) : u \in Urls}

PlainPages ==
    {HtmlResponse(Doc(<<TitleText>>, <<>>)),
     [HtmlResponse(BodyOfFailure) EXCEPT !.status = 404]}

InitLinks ==
    /\ \E anchors \in SeqsUpTo(Hrefs, MaxLinks + 2), b \in PlainPages, c \in PlainPages :
          web = [u \in Urls |->
                   CASE u = "A" -> HtmlResponse(Doc(<<TitleText>>, anchors))
                     [] u = "B" -> b
                     [] OTHER -> c]
    /\ seed = Text("A")
    /\ gen = "Unresumed"
    /\ urls_visited = {}
    /\ urls_to_visit = <<>>
    /\ ret = <<"NoCall">>
    /\ popped = <<>>
    /\ enqueued = <<>>
    /\ yielded = <<>>

SpecLinks == InitLinks /\ [][Next]_vars

\* An anchor whose href is present and parses as a url.
ValidHref(a) == a # None /\ ParseUrl(a[1]).ok

\* links holds, for the anchors with a valid href and for no others, the url
\* of the href, in the anchors' order and once per anchor.
LinksOfAnchors(anchors, links) ==
    LET valid == {i \in 1..Len(anchors) : ValidHref(anchors[i])}
    IN  /\ Len(links) = Cardinality(valid)
        /\ \A i \in valid :
              links[Cardinality({j \in valid : j <= i})] = ParseUrl(anchors[i][1]).val

\* The document served for a url.
DocOf(u) == web[u].text[1]

\* The page of A was extracted from anchors among which one has no href, one
\* has an href that does not parse and one valid href occurs twice.
W_LinkFiltering ==
    /\ yielded # <<>>
    /\ yielded[1][1] = "A"
    /\ \E i, j, k, l \in 1..Len(DocOf("A").anchors) :
          /\ DocOf("A").anchors[i] = None
          /\ DocOf("A").anchors[j] = Some(<<"n", "o">>)
          /\ k # l
          /\ DocOf("A").anchors[k] = Some(Text("C"))
          /\ DocOf("A").anchors[l] = Some(Text("C"))
    /\ yielded[1][2].links = <<"C", "C">>
    /\ urls_to_visit = <<"C", "C">>

\* C11: the link list of every extracted page holds exactly the hrefs that
\* are present and parse, in document order and without deduplication, and
\* nothing but the seed and such links ever enters the frontier.
LinkFiltering ==
    /\ \A i \in 1..Len(yielded) :
          LinksOfAnchors(DocOf(yielded[i][1]).anchors, yielded[i][2].links)
    /\ \A i \in 1..Len(enqueued) :
          \/ i = 1 /\ Some(enqueued[i]) = SeedUrl
          \/ \E u \in Range(YieldedUrls) : \E k \in 1..Len(DocOf(u).anchors) :
                /\ ValidHref(DocOf(u).anchors[k])
                /\ ParseUrl(DocOf(u).anchors[k][1]).val = enqueued[i]

----------------------------------------------------------------------------
\* The frontier the loop starts from when the next request is served.
FrontierAtRequest ==
    IF gen = "Unresumed" THEN SeedFrontier(seed) ELSE urls_to_visit

\* One request fetched several urls and produced one element.
W_LazyProduction ==
    /\ gen = "Suspended"
    /\ Len(yielded) = 2
    /\ Len(popped) = 3
    /\ ~Succeeds(popped[2])

\* C12: nothing is popped or fetched before the first request; a request
\* produces at most one element, and it pops (fetches) nothing exactly when
\* the frontier it starts from is empty.
LazyProduction ==
    /\ [](gen = "Unresumed" => popped = <<>> /\ urls_visited = {} /\ yielded = <<>>)
    /\ [][/\ Len(yielded') <= Len(yielded) + 1
          /\ Len(yielded') = Len(yielded) + 1 <=> ret'[1] = "Some"
          /\ popped' = popped <=> FrontierAtRequest = <<>>]_vars

----------------------------------------------------------------------------
\* The fetch of u gives a document and the extraction from it gives a page.
FetchAndExtractOk(u) ==
    /\ fetch_web_page(u).ok
    /\ get_web_page_info(fetch_web_page(u).val).ok

\* The sequence ended right after a url that failed, the frontier being empty,
\* and after urls that failed in the fetch and in the extraction.
W_OnlyFrontierExhaustion ==
    /\ Exhausted
    /\ yielded # <<>>
    /\ ~FetchAndExtractOk(popped[Len(popped)])
    /\ \E i \in 1..Len(popped) : ~fetch_web_page(popped[i]).ok
    /\ \E i \in 1..Len(popped) :
          fetch_web_page(popped[i]).ok /\ ~FetchAndExtractOk(popped[i])

\* C13: a request reports exhaustion only with the frontier empty and every
\* pushed url popped; whatever a request delivers as an element is the url
\* and the page info of a fetch and an extraction that succeeded, never the
\* outcome of a failure.
OnlyFrontierExhaustion ==
    /\ ret[1] \in {"NoCall", "Some", "None", "Panic"}
    /\ (gen = "Returned" \/ ret[1] \in {"None", "Panic"}) =>
          /\ gen = "Returned"
          /\ urls_to_visit = <<>>
          /\ popped = enqueued
    /\ \A i \in 1..Len(yielded) :
          /\ FetchAndExtractOk(yielded[i][1])
          /\ yielded[i][2] = get_web_page_info(fetch_web_page(yielded[i][1]).val).val
    /\ ret[1] = "Some" => ret[2] = yielded[Len(yielded)]

----------------------------------------------------------------------------
(* Responses of every shape for the seed url A: transport failure or not,   *)
(* success and non-success statuses, the Content-Type header absent, HTML,  *)
(* not HTML or not visible ASCII, the body undecodable, titled or untitled. *)

Statuses == {200, 204, 301, 404, 500}

ContentTypes ==
    {None, Some("text/html"), Some("text/html; charset=utf-8"),
     Some("application/json")} \cup {Some(h) : h \in NonAsciiValues}

Bodies == {None, Some(BodyOfFailure), Some(Doc(<<>>, BodyOfFailure.anchors))}

Responses ==
    [sent : BOOLEAN, status : Statuses, content_type : ContentTypes, text : Bodies]

InitFetch ==
    /\ \E a \in Responses, b \in PlainPages :
          web = [u \in Urls |->
                   CASE u = "A" -> a
                     [] u = "B" -> b
                     [] OTHER -> HtmlResponse(Doc(<<TitleText>>, <<>>))]
    /\ seed = Text("A")
    /\ gen = "Unresumed"
    /\ urls_visited = {}
    /\ urls_to_visit = <<>>
    /\ ret = <<"NoCall">>
    /\ popped = <<>>
    /\ enqueued = <<>>
    /\ yielded = <<>>

SpecFetch == InitFetch /\ [][Next]_vars

\* The Content-Type values that name HTML.
HtmlTypes == {"text/html", "text/html; charset=utf-8"}

\* C14: for every url fetched whose response has a success status, a
\* Content-Type header and a decodable body, fetch_web_page gives the
\* document when the header names HTML and BadContentType with the header
\* value when it does not.
ContentTypePolicy ==
    \A u \in Range(popped) :
        LET resp == web[u]
        IN  (/\ resp.sent
             /\ is_success(resp.status)
             /\ resp.content_type # None
             /\ resp.text # None) =>
                IF resp.content_type[1] \in HtmlTypes
                THEN fetch_web_page(u) = Ok(resp.text[1])
                ELSE fetch_web_page(u) = Err(<<"BadContentType", resp.content_type[1]>>)

----------------------------------------------------------------------------
\* The engine is suspended after three pops, with a url in the visited set
\* that failed and was not yielded.
W_VisitedIsPopped ==
    /\ gen = "Suspended"
    /\ Len(popped) = 3
    /\ Cardinality(urls_visited) = 3
    /\ \E u \in urls_visited : ~FetchAndExtractOk(u) /\ u \notin Range(YieldedUrls)

\* C15: whenever the engine is not running, the visited set is exactly the
\* set of urls popped so far, the urls whose fetch or extraction failed
\* included; a request adds to it exactly the urls it pops.
VisitedIsPopped ==
    /\ [](urls_visited = Range(popped))
    /\ [](\A i \in 1..Len(popped) : ~Succeeds(popped[i]) => popped[i] \in urls_visited)
    /\ [][urls_visited' = urls_visited \cup
             {popped'[i] : i \in (Len(popped) + 1)..Len(popped')}]_vars

----------------------------------------------------------------------------
\* The links the extractor returns for the page of u.
LinksOf(u) == get_web_page_info(fetch_web_page(u).val).val.links

\* B was yielded with the links C and A while C was already queued: C is
\* queued a second time, the visited A is not.
W_EnqueueRule ==
    /\ ret[1] = "Some"
    /\ popped = <<"A", "B">>
    /\ LinksOf("A") = <<"B", "C">>
    /\ LinksOf("B") = <<"C", "A">>
    /\ urls_to_visit = <<"C", "C">>

\* C16: a request that yields (u, page) leaves the frontier it started from
\* without the urls it popped, u the last of them, followed by the links of
\* u's page that are not in the visited set, in the extractor's order and
\* whether or not they are already queued; the links are in the frontier
\* in the state in which the element is delivered.
EnqueueRule ==
    [][ret'[1] = "Some" =>
        LET start == FrontierAtRequest
            n == Len(popped') - Len(popped)
            u == popped'[Len(popped')]
        IN  /\ n >= 1
            /\ n <= Len(start)
            /\ \A i \in 1..n : popped'[Len(popped) + i] = start[i]
            /\ ret'[2][1] = u
            /\ FetchAndExtractOk(u)
            /\ ret'[2][2].links = LinksOf(u)
            /\ urls_to_visit' =
                  SubSeq(start, n + 1, Len(start)) \o
                  SelectSeq(LinksOf(u), LAMBDA l : l \notin urls_visited')]_vars

----------------------------------------------------------------------------
\* The places where u was discovered: <<i, k>> when the k-th link of the
\* i-th yielded page is u.
Discoveries(u) ==
    UNION {{<<i, k>> : k \in {k \in 1..Len(yielded[i][2].links) :
                                 yielded[i][2].links[k] = u}} :
           i \in 1..Len(yielded)}

\* The frontier holds twice a url not yet popped, discovered once on each
\* of two different pages.
W_DuplicateFrontierEntries ==
    \E u \in Urls :
        /\ u \notin Range(popped)
        /\ Count(urls_to_visit, u) = 2
        /\ \E i, j \in 1..Len(yielded) :
              /\ i # j
              /\ Count(yielded[i][2].links, u) = 1
              /\ Count(yielded[j][2].links, u) = 1

\* C17: nothing is deduplicated when links are pushed: a url not yet popped
\* is in the frontier once for every time it was discovered, on different
\* pages or on the same page, so the frontier holds it more than once
\* exactly when it was discovered more than once.
DuplicateFrontierEntries ==
    \A u \in AllUrls \ Range(popped) :
        /\ Count(urls_to_visit, u) = Cardinality(Discoveries(u))
        /\ Count(urls_to_visit, u) >= 2 <=> Cardinality(Discoveries(u)) >= 2

----------------------------------------------------------------------------
\* The failure the order of precedence gives for a response, or "Document"
\* when no failure applies.
FirstFailure(resp) ==
    CASE ~resp.sent -> "HttpError"
      [] resp.sent /\ ~is_success(resp.status) -> "BadHttpStatus"
      [] resp.sent /\ is_success(resp.status) /\ resp.content_type = None ->
            "MissingContentType"
      [] resp.sent /\ is_success(resp.status) /\ resp.content_type = Some("text/html") ->
            "BadContentType"
      [] /\ resp.sent /\ is_success(resp.status)
         /\ resp.content_type \notin {None, Some("text/html")}
         /\ resp.text = None -> "TextDecodeError"
      [] OTHER -> "Document"

\* A was fetched and its response was a 404 without Content-Type header and
\* with an undecodable body.
W_FailurePrecedence ==
    /\ popped # <<>>
    /\ popped[1] = "A"
    /\ web["A"].sent
    /\ web["A"].status = 404
    /\ web["A"].content_type = None
    /\ web["A"].text = None
    /\ fetch_web_page("A") = Err(<<"BadHttpStatus", 404>>)
    /\ yielded = <<>>

\* C18: for every url fetched, fetch_web_page returns the first failure in
\* the order HttpError, BadHttpStatus with the status (whatever the headers
\* and the body), MissingContentType, BadContentType with the header value,
\* TextDecodeError, and the document only when none applies; a 404 gives
\* BadHttpStatus(404) and no element.
FailurePrecedence ==
    \A u \in Range(popped) :
        LET resp == web[u]
            first == FirstFailure(resp)
        IN  /\ fetch_web_page(u) =
                  CASE first = "HttpError" -> Err(<<"HttpError">>)
                    [] first = "BadHttpStatus" -> Err(<<"BadHttpStatus", resp.status>>)
                    [] first = "MissingContentType" -> Err(<<"MissingContentType">>)
                    [] first = "BadContentType" ->
                          Err(<<"BadContentType", resp.content_type[1]>>)
                    [] first = "TextDecodeError" -> Err(<<"TextDecodeError">>)
                    [] OTHER -> Ok(resp.text[1])
            /\ (resp.sent /\ resp.status = 404) =>
                  /\ fetch_web_page(u) = Err(<<"BadHttpStatus", 404>>)
                  /\ u \notin Range(YieldedUrls)

----------------------------------------------------------------------------
\* The urls a step pushes onto the frontier: the entries it adds to the
\* history of pushes (the seed's push of lib.rs:87-89 left aside).
PushedInStep(before, after) ==
    {after[i] : i \in (Len(before) + 1)..Len(after)}

\* A page that links to itself was yielded and is not queued again.
W_NoEnqueueAfterVisit ==
    \E i \in 1..Len(yielded) :
        LET u == yielded[i][1]
        IN  /\ Count(yielded[i][2].links, u) >= 1
            /\ Count(popped, u) = 1
            /\ Count(enqueued, u) = 1
            /\ Count(urls_to_visit, u) = 0
            /\ Len(popped) >= 2

\* C19: a step pushes no url that has been popped, the url it has just
\* popped included, so the number of frontier entries of a popped url never
\* grows.
NoEnqueueAfterVisit ==
    [][/\ PushedInStep(IF gen = "Unresumed" THEN SeedFrontier(seed) ELSE enqueued,
                       enqueued') \cap Range(popped') = {}
       /\ \A u \in Range(popped) :
             Count(urls_to_visit', u) <= Count(urls_to_visit, u)]_vars

----------------------------------------------------------------------------
\* The crawl is exhausted over three reachable urls, one of which failed
\* after the first element and before the last.
W_CoverageAtExhaustion ==
    /\ Exhausted
    /\ Cardinality(Reachable) = 3
    /\ Len(yielded) >= 2
    /\ \E i \in 2..Len(popped) :
          /\ ~Succeeds(popped[i])
          /\ \E j \in (i + 1)..Len(popped) : Succeeds(popped[j])

\* C20: when exhaustion is reported, every url reachable from the seed
\* through links of pages that fetch and extract is in the visited set and,
\* when its own fetch and extraction succeed, has been yielded; and at all
\* times every yielded url is the seed or a link of an earlier yielded page.
CoverageAtExhaustion ==
    /\ Exhausted =>
          /\ Reachable \subseteq urls_visited
          /\ \A u \in Reachable : Succeeds(u) => u \in Range(YieldedUrls)
    /\ \A i \in 1..Len(yielded) :
          \/ Some(yielded[i][1]) = SeedUrl
          \/ \E j \in 1..(i - 1) : yielded[i][1] \in Range(yielded[j][2].links)

====
